---- MODULE Spec2Model ----
(***************************************************************************)
(* Model of the layout dispatcher of RmlUi, Source/Core/LayoutEngine.cpp.  *)
(* The recursive routines are modelled with an explicit call stack; every  *)
(* call of a formatting-context collaborator (LayoutBlockBox, LayoutTable, *)
(* LayoutInlineBox, Element::OnLayout, Log) is one step whose result is    *)
(* chosen nondeterministically from the values the dispatcher tests for.   *)
(***************************************************************************)
EXTENDS Integers, Sequences, FiniteSets, TLC

VARIABLES
    style,      \* element -> computed style (tag, display, position, float)
    stack,      \* call stack of the layout pass, innermost frame last
    ret,        \* value handed back by the frame that returned last
    ev,         \* the collaborator operation performed by the last step
    visits,     \* element -> number of FormatElement(context, element) calls
    layouts,    \* element -> number of Element::OnLayout notifications
    signalled,  \* a Close or FormatTable was not OK, or a box was not opened
    tree,       \* element -> its children, in order
    pool        \* state of the layout chunk pool and of its client threads

vars == <<style, stack, ret, ev, visits, layouts, signalled, tree, pool>>

----------------------------------------------------------------------------
(* Bounds of the model.                                                    *)

\* history counters saturate at this value
CounterCap == 2

Min(a, b) == IF a < b THEN a ELSE b
Inc(c) == Min(c + 1, CounterCap)

----------------------------------------------------------------------------
(* The element tree: Element::GetNumChildren / Element::GetChild.          *)
(* Element 1 is the root of the pass.  In the document NarrowTree it has   *)
(* the children 2 and 3, and element 2 has the child 4; in WideTree it has *)
(* the child 2, which has the children 3 and 4.                            *)

NarrowTree == << <<2, 3>>, <<4>>, <<>>, <<>> >>
WideTree == << <<2>>, <<3, 4>>, <<>>, <<>> >>

Children == tree

Elems == DOMAIN NarrowTree

GetNumChildren(e) == Len(Children[e])

\* i is the 0-based index of the source
GetChild(e, i) == Children[e][i + 1]

Parent(e) == CHOOSE p \in Elems \cup {0} :
                IF \E q \in Elems : \E k \in DOMAIN Children[q] : Children[q][k] = e
                THEN p \in Elems /\ \E k \in DOMAIN Children[p] : Children[p][k] = e
                ELSE p = 0

RECURSIVE Ancestors(_)
Ancestors(e) == IF Parent(e) = 0 THEN {} ELSE {Parent(e)} \cup Ancestors(Parent(e))

----------------------------------------------------------------------------
(* Computed values of an element.                                          *)

TableRoles == {"TableRow", "TableRowGroup", "TableColumn", "TableColumnGroup", "TableCell"}
Displays == {"None", "Block", "Inline", "InlineBlock", "Table"} \cup TableRoles
Positions == {"Static", "Relative", "Absolute", "Fixed"}
Floats == {"None", "Left", "Right"}
Tags == {"br", "div"}

Style(t, d, p, f) == [tag |-> t, display |-> d, position |-> p, float |-> f]

AllStyles == [tag : Tags, display : Displays, position : Positions, float : Floats]

\* the styles the elements of the document are drawn from: one for every
\* branch of the classification, and the combinations matching two branches
DocStyles ==
    { Style("div", "Block", "Static", "None"),
      Style("div", "Inline", "Static", "None"),
      Style("div", "InlineBlock", "Static", "None"),
      Style("div", "Table", "Static", "None"),
      Style("div", "TableCell", "Static", "None"),
      Style("div", "None", "Static", "None"),
      Style("div", "Block", "Static", "Left"),
      Style("br", "Inline", "Static", "None"),
      Style("br", "None", "Static", "None"),
      Style("div", "Block", "Fixed", "Right"),
      Style("div", "TableRow", "Static", "Left") }

----------------------------------------------------------------------------
(* Results of the collaborators.                                           *)

CloseResult == {"OK", "LAYOUT_SELF", "LAYOUT_PARENT"}

NoEvent == [op |-> "none", el |-> 0, ctx |-> 0, res |-> "none"]
Event(o, e, c, r) == [op |-> o, el |-> e, ctx |-> c, res |-> r]

BoolRes(b) == IF b THEN "true" ELSE "false"

----------------------------------------------------------------------------
(* Call stack.                                                             *)

\* fn   the routine; el its element; ctx the owner of block_context_box
\* pc   position in the routine; i the child index; it the loop counter
\* closes  Close / FormatTable calls made; first, last their results
\* passes  children passes run to their end; notes OnLayout calls made
\* absd  CloseAbsoluteElements calls made; roots nested root formattings done
\* ops   operations made on block_context_box; logs warnings logged
\* out   whether out_visible_overflow_size is given: "absent" in the calls
\*       of this file, "any" for the caller of the pass until it is read
\* queries  GetVisibleOverflowSize calls made
\* box   the result of the AddBlockElement that opens the context of el
\* res   the value the routine returns
Frame(f, e, c) ==
    [fn |-> f, el |-> e, ctx |-> c, pc |-> "start", i |-> 0, it |-> 0,
     closes |-> 0, first |-> "none", last |-> "none", passes |-> 0,
     notes |-> 0, absd |-> 0, roots |-> 0, ops |-> 0, logs |-> 0,
     out |-> "absent", queries |-> 0, box |-> "none",
     res |-> "none"]

Depth == Len(stack)
Top == stack[Depth]
Running == Depth > 0
At(f, p) == Running /\ Top.fn = f /\ Top.pc = p

SetTop(fr) == [stack EXCEPT ![Depth] = fr]
Push(fr, callee) == Append(SetTop(fr), callee)
Pop == SubSeq(stack, 1, Depth - 1)

Finish(fr, r) == [fr EXCEPT !.pc = "return", !.res = r]

Keep == UNCHANGED <<style, pool, tree>>
NoCount == UNCHANGED <<visits, layouts>>
Quiet == UNCHANGED signalled
Signal(b) == signalled' = (signalled \/ b)

----------------------------------------------------------------------------
(* Root entry: LayoutEngine::FormatElement(element, containing_block, ...) *)

\* the attempt budget of the root loop
MaxLayoutIterations == 2

\* the child index after FormatElement(block_context_box, child i) returned
\* ok: "if (!FormatElement(...)) i = -1;" followed by the loop's i++
RootNextIndex(ok, i) == IF ok THEN i + 1 ELSE 0

\* variants of RootLoopAgain: one iteration too many; the result of Close
\* not looked at
RootLoopAgainOffByOne(r, it) == r # "OK" /\ it < MaxLayoutIterations
RootLoopAgainBlind(r, it) == it + 1 < MaxLayoutIterations

\* whether the root loop runs another iteration after Close returned r in
\* iteration it
RootLoopAgain(r, it) == r # "OK" /\ it + 1 < MaxLayoutIterations

\* variants of RootAfterCloseAbsolute: CloseAbsoluteElements inside the
\* loop; the visible overflow never fetched
RootAfterCloseAbsoluteInLoop(out) == "children"
RootAfterCloseAbsoluteNoQuery(out) == "onLayout"

\* the step after CloseAbsoluteElements: the visible overflow is fetched only
\* if out_visible_overflow_size was given
RootAfterCloseAbsolute(out) == IF out THEN "overflow" ELSE "onLayout"

\* containing_block_box.AddBlockElement(element, box, min_height, max_height)
RootOpen ==
    /\ At("Root", "start")
    /\ stack' = SetTop([Top EXCEPT !.pc = "children", !.i = 0, !.it = 0,
                                   !.ops = @ + 1, !.box = "box"])
    /\ ev' = Event("AddBlockElement", Top.el, 0, "box")
    /\ ret' = "none"
    /\ Keep /\ Quiet /\ NoCount

\* FormatElement(block_context_box, element->GetChild(i)) is called
RootCallChild ==
    /\ At("Root", "children")
    /\ Top.i < GetNumChildren(Top.el)
    /\ LET c == GetChild(Top.el, Top.i) IN
        /\ stack' = Push([Top EXCEPT !.pc = "wait"], Frame("Elem", c, Top.el))
        /\ ev' = Event("FormatElement", c, Top.el, "none")
        /\ visits' = [visits EXCEPT ![c] = Inc(@)]
    /\ ret' = "none"
    /\ UNCHANGED layouts
    /\ Keep /\ Quiet

\* ... and has returned
RootChildReturned ==
    /\ At("Root", "wait")
    /\ ret \in {"true", "false"}
    /\ stack' = SetTop([Top EXCEPT !.pc = "children",
                                   !.i = RootNextIndex(ret = "true", Top.i)])
    /\ ev' = NoEvent
    /\ ret' = "none"
    /\ Keep /\ Quiet /\ NoCount

\* the children loop has ended: block_context_box->Close()
RootClose ==
    /\ At("Root", "children")
    /\ Top.i >= GetNumChildren(Top.el)
    /\ \E r \in CloseResult :
        /\ stack' = SetTop(
              [Top EXCEPT !.closes = @ + 1,
                          !.passes = @ + 1,
                          !.first = IF @ = "none" THEN r ELSE @,
                          !.last = r,
                          !.i = 0,
                          !.it = IF RootLoopAgain(r, Top.it) THEN @ + 1 ELSE @,
                          !.pc = IF RootLoopAgain(r, Top.it) THEN "children"
                                 ELSE "closeAbsolute"])
        /\ ev' = Event("Close", Top.el, Top.el, r)
        /\ Signal(r # "OK")
    /\ ret' = "none"
    /\ Keep /\ NoCount

\* block_context_box->CloseAbsoluteElements(); out_visible_overflow_size is
\* read next and nowhere else, the caller's choice is drawn here
RootCloseAbsoluteElements ==
    /\ At("Root", "closeAbsolute")
    /\ \E o \in (IF Top.out = "any" THEN {"given", "absent"} ELSE {Top.out}) :
        stack' = SetTop([Top EXCEPT !.pc = RootAfterCloseAbsolute(o = "given"),
                                    !.out = o,
                                    !.absd = @ + 1])
    /\ ev' = Event("CloseAbsoluteElements", Top.el, Top.el, "none")
    /\ ret' = "none"
    /\ Keep /\ Quiet /\ NoCount

\* block_context_box->GetVisibleOverflowSize()
RootVisibleOverflow ==
    /\ At("Root", "overflow")
    /\ stack' = SetTop([Top EXCEPT !.pc = "onLayout", !.queries = @ + 1])
    /\ ev' = Event("GetVisibleOverflowSize", Top.el, Top.el, "none")
    /\ ret' = "none"
    /\ Keep /\ Quiet /\ NoCount

\* element->OnLayout()
RootOnLayout ==
    /\ At("Root", "onLayout")
    /\ stack' = SetTop(Finish([Top EXCEPT !.notes = @ + 1], "void"))
    /\ ev' = Event("OnLayout", Top.el, Top.el, "none")
    /\ layouts' = [layouts EXCEPT ![Top.el] = Inc(@)]
    /\ ret' = "none"
    /\ UNCHANGED visits
    /\ Keep /\ Quiet

----------------------------------------------------------------------------
(* Per element: LayoutEngine::FormatElement(block_context_box, element)    *)

\* FormatElementSpecial: the element is a <br> tag
FormatElementSpecial(s) == s.tag = "br"

\* variant of Classify: the float test made before the position test
ClassifyFloatFirst(s) ==
    IF FormatElementSpecial(s) THEN "special"
    ELSE IF s.display = "None" THEN "none"
    ELSE IF s.float # "None" THEN "float"
    ELSE IF s.position = "Absolute" \/ s.position = "Fixed" THEN "absolute"
    ELSE IF s.display \in {"Block", "Inline", "InlineBlock", "Table"}
         THEN s.display
    ELSE "tablerole"

\* the branch of FormatElement that handles an element of style s
Classify(s) ==
    IF FormatElementSpecial(s) THEN "special"
    ELSE IF s.display = "None" THEN "none"
    ELSE IF s.position = "Absolute" \/ s.position = "Fixed" THEN "absolute"
    ELSE IF s.float # "None" THEN "float"
    ELSE IF s.display = "Block" THEN "Block"
    ELSE IF s.display = "Inline" THEN "Inline"
    ELSE IF s.display = "InlineBlock" THEN "InlineBlock"
    ELSE IF s.display = "Table" THEN "Table"
    ELSE "tablerole"

Kind(e) == Classify(style[e])

\* variant of AddFloatReturn: the result of AddFloatElement dropped
AddFloatReturnTrue(ok) == "true"

\* the value returned for a float: the result ok of AddFloatElement
AddFloatReturn(ok) == BoolRes(ok)

\* variant of TableRoleReturn: the malformed display reported as a failure
TableRoleReturnFalse == "false"

\* the value returned for a table role outside a table
TableRoleReturn == "true"

\* FormatElementSpecial: block_context_box->AddBreak()
ElemBreak ==
    /\ At("Elem", "start")
    /\ Kind(Top.el) = "special"
    /\ stack' = SetTop([Top EXCEPT !.pc = "breakLayout", !.ops = @ + 1])
    /\ ev' = Event("AddBreak", Top.el, Top.ctx, "none")
    /\ ret' = "none"
    /\ Keep /\ Quiet /\ NoCount

\* FormatElementSpecial: element->OnLayout(); return true
ElemBreakOnLayout ==
    /\ At("Elem", "breakLayout")
    /\ stack' = SetTop(Finish([Top EXCEPT !.notes = @ + 1], "true"))
    /\ ev' = Event("OnLayout", Top.el, Top.ctx, "none")
    /\ layouts' = [layouts EXCEPT ![Top.el] = Inc(@)]
    /\ ret' = "none"
    /\ UNCHANGED visits
    /\ Keep /\ Quiet

\* display none: return true
ElemNone ==
    /\ At("Elem", "start")
    /\ Kind(Top.el) = "none"
    /\ stack' = SetTop(Finish(Top, "true"))
    /\ ev' = NoEvent
    /\ ret' = "none"
    /\ Keep /\ Quiet /\ NoCount

\* block_context_box->AddAbsoluteElement(element); return true
ElemAbsolute ==
    /\ At("Elem", "start")
    /\ Kind(Top.el) = "absolute"
    /\ stack' = SetTop(Finish([Top EXCEPT !.ops = @ + 1], "true"))
    /\ ev' = Event("AddAbsoluteElement", Top.el, Top.ctx, "none")
    /\ ret' = "none"
    /\ Keep /\ Quiet /\ NoCount

\* a float: LayoutEngine::FormatElement(element, containing block) is called
ElemFloatRoot ==
    /\ At("Elem", "start")
    /\ Kind(Top.el) = "float"
    /\ stack' = Push([Top EXCEPT !.pc = "floatWait"], Frame("Root", Top.el, 0))
    /\ ev' = Event("FormatRoot", Top.el, 0, "none")
    /\ ret' = "none"
    /\ Keep /\ Quiet /\ NoCount

\* return block_context_box->AddFloatElement(element)
ElemAddFloat ==
    /\ At("Elem", "floatWait")
    /\ ret = "void"
    /\ \E ok \in BOOLEAN :
        /\ stack' = SetTop(Finish([Top EXCEPT !.roots = @ + 1, !.ops = @ + 1,
                                               !.last = BoolRes(ok)],
                                   AddFloatReturn(ok)))
        /\ ev' = Event("AddFloatElement", Top.el, Top.ctx, BoolRes(ok))
    /\ ret' = "none"
    /\ Keep /\ Quiet /\ NoCount

\* return FormatElementBlock / Inline / InlineBlock / Table (...)
ElemDispatch ==
    /\ At("Elem", "start")
    /\ Kind(Top.el) \in {"Block", "Inline", "InlineBlock", "Table"}
    /\ stack' = SetTop([Top EXCEPT !.fn = Kind(Top.el)])
    /\ ev' = NoEvent
    /\ ret' = "none"
    /\ Keep /\ Quiet /\ NoCount

\* a table role outside a table: Log::Message(LT_WARNING, ...); return true
ElemTableRole ==
    /\ At("Elem", "start")
    /\ Kind(Top.el) = "tablerole"
    /\ stack' = SetTop(Finish([Top EXCEPT !.logs = @ + 1], TableRoleReturn))
    /\ ev' = Event("LogWarning", Top.el, Top.ctx, "none")
    /\ ret' = "none"
    /\ Keep /\ Quiet /\ NoCount

----------------------------------------------------------------------------
(* LayoutEngine::FormatElementBlock                                        *)

\* the child index after a child of the first children pass returned ok
BlockNextIndex(ok, i) == IF ok THEN i + 1 ELSE 0

\* variant of BlockReformatNextIndex: a failed child restarts the re-format
\* pass
BlockReformatNextIndexRestart(ok, i) == IF ok THEN i + 1 ELSE 0

\* the child index after a child of the re-format pass returned: the result
\* is not looked at
BlockReformatNextIndex(ok, i) == i + 1

\* what follows the first Close: "layout" is element->OnLayout() and
\* return true, "reformat" the second children pass, "fail" return false
BlockAfterClose(r) ==
    IF r = "LAYOUT_SELF" THEN "reformat"
    ELSE IF r = "LAYOUT_PARENT" THEN "fail"
    ELSE "layout"

\* variant of BlockAfterReclose: the second Close not checked
BlockAfterRecloseUnchecked(r) == "layout"

\* what follows the second Close
BlockAfterReclose(r) == IF r = "OK" THEN "layout" ELSE "fail"

\* variant of BlockStep: the re-format starts the routine over and opens a
\* new box
BlockStepReopen(fr, what) ==
    IF what = "fail" THEN Finish(fr, "false")
    ELSE IF what = "reformat" THEN [fr EXCEPT !.pc = "start", !.i = 0]
    ELSE [fr EXCEPT !.pc = "onLayout"]

\* the frame after a Close, by what follows it
BlockStep(fr, what) ==
    IF what = "fail" THEN Finish(fr, "false")
    ELSE IF what = "reformat" THEN [fr EXCEPT !.pc = "reformat", !.i = 0]
    ELSE [fr EXCEPT !.pc = "onLayout"]

\* variant of BlockAfterOpen: the new box not checked for null
BlockAfterOpenUnchecked(opened) == "children"

\* what follows AddBlockElement: the first children pass, or "fail"
BlockAfterOpen(opened) == IF opened THEN "children" ELSE "fail"

\* block_context_box->AddBlockElement(...); null: return false
BlockOpen ==
    /\ At("Block", "start")
    /\ \E opened \in BOOLEAN :
        /\ stack' = SetTop(
              LET fr == [Top EXCEPT !.ops = @ + 1,
                                    !.box = IF opened THEN "box" ELSE "null"]
              IN IF BlockAfterOpen(opened) = "fail" THEN Finish(fr, "false")
                 ELSE [fr EXCEPT !.pc = "children", !.i = 0])
        /\ ev' = Event("AddBlockElement", Top.el, Top.ctx,
                       IF opened THEN "box" ELSE "null")
        /\ Signal(~opened)
    /\ ret' = "none"
    /\ Keep /\ NoCount

\* first pass: FormatElement(new_block_context_box, element->GetChild(i))
BlockCallChild ==
    /\ At("Block", "children")
    /\ Top.i < GetNumChildren(Top.el)
    /\ LET c == GetChild(Top.el, Top.i) IN
        /\ stack' = Push([Top EXCEPT !.pc = "wait"], Frame("Elem", c, Top.el))
        /\ ev' = Event("FormatElement", c, Top.el, "none")
        /\ visits' = [visits EXCEPT ![c] = Inc(@)]
    /\ ret' = "none"
    /\ UNCHANGED layouts
    /\ Keep /\ Quiet

BlockChildReturned ==
    /\ At("Block", "wait")
    /\ ret \in {"true", "false"}
    /\ stack' = SetTop([Top EXCEPT !.pc = "children",
                                   !.i = BlockNextIndex(ret = "true", Top.i)])
    /\ ev' = NoEvent
    /\ ret' = "none"
    /\ Keep /\ Quiet /\ NoCount

\* switch (new_block_context_box->Close())
BlockClose ==
    /\ At("Block", "children")
    /\ Top.i >= GetNumChildren(Top.el)
    /\ \E r \in CloseResult :
        /\ stack' = SetTop(BlockStep([Top EXCEPT !.closes = @ + 1,
                                                 !.passes = @ + 1,
                                                 !.first = r,
                                                 !.last = r],
                                     BlockAfterClose(r)))
        /\ ev' = Event("Close", Top.el, Top.el, r)
        /\ Signal(r # "OK")
    /\ ret' = "none"
    /\ Keep /\ NoCount

\* case LAYOUT_SELF: FormatElement(new_block_context_box, child i) again
BlockReformatChild ==
    /\ At("Block", "reformat")
    /\ Top.i < GetNumChildren(Top.el)
    /\ LET c == GetChild(Top.el, Top.i) IN
        /\ stack' = Push([Top EXCEPT !.pc = "rewait"], Frame("Elem", c, Top.el))
        /\ ev' = Event("FormatElement", c, Top.el, "none")
        /\ visits' = [visits EXCEPT ![c] = Inc(@)]
    /\ ret' = "none"
    /\ UNCHANGED layouts
    /\ Keep /\ Quiet

BlockReformatReturned ==
    /\ At("Block", "rewait")
    /\ ret \in {"true", "false"}
    /\ stack' = SetTop([Top EXCEPT !.pc = "reformat",
                                   !.i = BlockReformatNextIndex(ret = "true", Top.i)])
    /\ ev' = NoEvent
    /\ ret' = "none"
    /\ Keep /\ Quiet /\ NoCount

\* if (new_block_context_box->Close() == OK) ... else fall through
BlockReclose ==
    /\ At("Block", "reformat")
    /\ Top.i >= GetNumChildren(Top.el)
    /\ \E r \in CloseResult :
        /\ stack' = SetTop(BlockStep([Top EXCEPT !.closes = @ + 1,
                                                 !.passes = @ + 1,
                                                 !.last = r],
                                     BlockAfterReclose(r)))
        /\ ev' = Event("Close", Top.el, Top.el, r)
        /\ Signal(r # "OK")
    /\ ret' = "none"
    /\ Keep /\ NoCount

\* element->OnLayout(); return true
BlockOnLayout ==
    /\ At("Block", "onLayout")
    /\ stack' = SetTop(Finish([Top EXCEPT !.notes = @ + 1], "true"))
    /\ ev' = Event("OnLayout", Top.el, Top.el, "none")
    /\ layouts' = [layouts EXCEPT ![Top.el] = Inc(@)]
    /\ ret' = "none"
    /\ UNCHANGED visits
    /\ Keep /\ Quiet

----------------------------------------------------------------------------
(* LayoutEngine::FormatElementInline                                       *)

\* variant of InlineContinues: the result of the child not checked
InlineContinuesUnchecked(ok) == TRUE

\* whether the inline routine goes on after a child returned ok
InlineContinues(ok) == ok

\* block_context_box->AddInlineElement(element, box)
InlineOpen ==
    /\ At("Inline", "start")
    /\ stack' = SetTop([Top EXCEPT !.pc = "children", !.i = 0, !.ops = @ + 1])
    /\ ev' = Event("AddInlineElement", Top.el, Top.ctx, "box")
    /\ ret' = "none"
    /\ Keep /\ Quiet /\ NoCount

\* FormatElement(block_context_box, element->GetChild(i)): the parent's context
InlineCallChild ==
    /\ At("Inline", "children")
    /\ Top.i < GetNumChildren(Top.el)
    /\ LET c == GetChild(Top.el, Top.i) IN
        /\ stack' = Push([Top EXCEPT !.pc = "wait"], Frame("Elem", c, Top.ctx))
        /\ ev' = Event("FormatElement", c, Top.ctx, "none")
        /\ visits' = [visits EXCEPT ![c] = Inc(@)]
    /\ ret' = "none"
    /\ UNCHANGED layouts
    /\ Keep /\ Quiet

\* a false child: return false
InlineChildReturned ==
    /\ At("Inline", "wait")
    /\ ret \in {"true", "false"}
    /\ stack' = SetTop(IF InlineContinues(ret = "true")
                       THEN [Top EXCEPT !.pc = "children", !.i = @ + 1]
                       ELSE Finish(Top, "false"))
    /\ ev' = NoEvent
    /\ ret' = "none"
    /\ Keep /\ Quiet /\ NoCount

\* inline_box->Close(); return true
InlineClose ==
    /\ At("Inline", "children")
    /\ Top.i >= GetNumChildren(Top.el)
    /\ stack' = SetTop(Finish([Top EXCEPT !.closes = @ + 1], "true"))
    /\ ev' = Event("CloseInline", Top.el, Top.ctx, "none")
    /\ ret' = "none"
    /\ Keep /\ Quiet /\ NoCount

----------------------------------------------------------------------------
(* LayoutEngine::FormatElementInlineBlock                                  *)

\* variant of InlineBlockAfterAdd: the inline box left open
InlineBlockAfterAddOpen == "return"

\* the step after AddInlineElement: the inline box is closed
InlineBlockAfterAdd == "close"

\* variant of InlineBlockReturn: a failure reported to the parent
InlineBlockReturnFalse == "false"

\* the value FormatElementInlineBlock returns
InlineBlockReturn == "true"

\* FormatElement(element, containing_block_size)
InlineBlockRoot ==
    /\ At("InlineBlock", "start")
    /\ stack' = Push([Top EXCEPT !.pc = "wait"], Frame("Root", Top.el, 0))
    /\ ev' = Event("FormatRoot", Top.el, 0, "none")
    /\ ret' = "none"
    /\ Keep /\ Quiet /\ NoCount

\* block_context_box->AddInlineElement(element, element->GetBox())
InlineBlockAdd ==
    /\ At("InlineBlock", "wait")
    /\ ret = "void"
    /\ stack' = SetTop([Top EXCEPT !.pc = InlineBlockAfterAdd,
                                   !.roots = @ + 1, !.ops = @ + 1])
    /\ ev' = Event("AddInlineElement", Top.el, Top.ctx, "box")
    /\ ret' = "none"
    /\ Keep /\ Quiet /\ NoCount

\* ...->Close(); return true
InlineBlockClose ==
    /\ At("InlineBlock", "close")
    /\ stack' = SetTop(Finish([Top EXCEPT !.closes = @ + 1], InlineBlockReturn))
    /\ ev' = Event("CloseInline", Top.el, Top.ctx, "none")
    /\ ret' = "none"
    /\ Keep /\ Quiet /\ NoCount

----------------------------------------------------------------------------
(* LayoutEngine::FormatElementTable                                        *)

\* the attempt budget of the table loop
MaxTableIterations == 2

\* variant of TableAfterFormat: every result that is not OK is retried
TableAfterFormatRetryAll(r, it) ==
    IF r = "OK" THEN "true"
    ELSE IF it + 1 < MaxTableIterations THEN "again"
    ELSE "false"

\* what follows FormatTable returning r in iteration it: "again", or the
\* value returned
TableAfterFormat(r, it) ==
    IF r = "LAYOUT_SELF"
    THEN (IF it + 1 < MaxTableIterations THEN "again" ELSE "true")
    ELSE IF r = "LAYOUT_PARENT" THEN "false"
    ELSE "true"

\* block_context_box->AddBlockElement(element_table, ...); null: return false
TableOpen ==
    /\ At("Table", "start")
    /\ \E opened \in BOOLEAN :
        /\ stack' = SetTop(
              LET fr == [Top EXCEPT !.ops = @ + 1,
                                    !.box = IF opened THEN "box" ELSE "null"]
              IN IF opened THEN [fr EXCEPT !.pc = "format", !.it = 0]
                 ELSE Finish(fr, "false"))
        /\ ev' = Event("AddBlockElement", Top.el, Top.ctx,
                       IF opened THEN "box" ELSE "null")
        /\ Signal(~opened)
    /\ ret' = "none"
    /\ Keep /\ NoCount

\* LayoutTable::FormatTable(table_block_context_box, element_table)
TableFormat ==
    /\ At("Table", "format")
    /\ \E r \in CloseResult :
        /\ stack' = SetTop(
              LET fr == [Top EXCEPT !.closes = @ + 1,
                                    !.first = IF @ = "none" THEN r ELSE @,
                                    !.last = r]
                  what == TableAfterFormat(r, Top.it)
              IN IF what = "again" THEN [fr EXCEPT !.it = @ + 1]
                 ELSE Finish(fr, what))
        /\ ev' = Event("FormatTable", Top.el, Top.el, r)
        /\ Signal(r # "OK")
    /\ ret' = "none"
    /\ Keep /\ NoCount

----------------------------------------------------------------------------
(* A routine returns to its caller.                                        *)

Return ==
    /\ Running
    /\ Top.pc = "return"
    /\ stack' = Pop
    /\ ret' = Top.res
    /\ ev' = Event("Return", Top.el, Top.ctx, Top.res)
    /\ Keep /\ Quiet /\ NoCount

----------------------------------------------------------------------------
(* The layout chunk pool: layout_chunk_pool and the two entry points       *)
(* LayoutEngine::AllocateLayoutChunk / DeallocateLayoutChunk, used by      *)
(* independent layout passes on separate threads.  Pool<T> itself is in    *)
(* Pool.h; it is modelled as the specification describes the allocator: a  *)
(* free list provisioned in chunks of a fixed size that grows when it is   *)
(* exhausted, with allocate and release under one mutex.                   *)

\* the two passes
PoolThreads == {1, 2}
\* chunks provisioned at a time (layout_chunk_pool(200, true), scaled down)
PoolChunkSize == 2
\* layout nodes a pass holds at a time
MaxHeld == 2

PoolIdle ==
    [free |-> <<>>, size |-> 0, lock |-> 0,
     held |-> [t \in PoolThreads |-> {}],
     cur |-> [t \in PoolThreads |-> 0],
     pc |-> [t \in PoolThreads |-> "idle"]]

RECURSIVE Without(_, _)
Without(q, c) ==
    IF q = <<>> THEN <<>>
    ELSE IF Head(q) = c THEN Tail(q)
    ELSE <<Head(q)>> \o Without(Tail(q), c)

RECURSIVE Fresh(_, _)
Fresh(from, n) == IF n = 0 THEN <<>> ELSE <<from + 1>> \o Fresh(from + 1, n - 1)

LayoutIdle == UNCHANGED <<style, stack, ret, ev, visits, layouts, signalled, tree>>

\* variant of PoolMayEnter: no mutex
PoolMayEnterUnlocked(t) == TRUE

\* the mutex of the pool is free for thread t
PoolMayEnter(t) == pool.lock = 0

\* LayoutEngine::AllocateLayoutChunk: layout_chunk_pool.AllocateAndConstruct()
AllocateLayoutChunk(t) ==
    /\ pool.pc[t] = "idle"
    /\ Cardinality(pool.held[t]) < MaxHeld
    /\ pool' = [pool EXCEPT !.pc[t] = "acquire"]
    /\ LayoutIdle

\* LayoutEngine::DeallocateLayoutChunk: layout_chunk_pool.DestroyAndDeallocate(chunk)
DeallocateLayoutChunk(t) ==
    /\ pool.pc[t] = "idle"
    /\ \E c \in pool.held[t] :
        pool' = [pool EXCEPT !.pc[t] = "reacquire", !.cur[t] = c]
    /\ LayoutIdle

\* the pool enters its critical section
PoolAcquire(t) ==
    /\ pool.pc[t] \in {"acquire", "reacquire"}
    /\ PoolMayEnter(t)
    /\ pool' = [pool EXCEPT !.lock = t,
                            !.pc[t] = IF @ = "acquire" THEN "grow" ELSE "push"]
    /\ LayoutIdle

\* an exhausted free list is extended by one chunk of nodes
PoolGrow(t) ==
    /\ pool.pc[t] = "grow"
    /\ pool' = IF pool.free = <<>>
               THEN [pool EXCEPT !.free = Fresh(pool.size, PoolChunkSize),
                                 !.size = @ + PoolChunkSize,
                                 !.pc[t] = "head"]
               ELSE [pool EXCEPT !.pc[t] = "head"]
    /\ LayoutIdle

\* the first free node is read
PoolReadHead(t) ==
    /\ pool.pc[t] = "head"
    /\ pool.free # <<>>
    /\ pool' = [pool EXCEPT !.cur[t] = Head(pool.free), !.pc[t] = "unlink"]
    /\ LayoutIdle

\* ... unlinked from the free list and handed to the caller
PoolUnlink(t) ==
    /\ pool.pc[t] = "unlink"
    /\ pool' = [pool EXCEPT !.free = Without(@, pool.cur[t]),
                            !.held[t] = @ \cup {pool.cur[t]},
                            !.cur[t] = 0,
                            !.pc[t] = "release"]
    /\ LayoutIdle

\* a released node is linked at the head of the free list
PoolPush(t) ==
    /\ pool.pc[t] = "push"
    /\ pool' = [pool EXCEPT !.free = <<pool.cur[t]>> \o @,
                            !.held[t] = @ \ {pool.cur[t]},
                            !.cur[t] = 0,
                            !.pc[t] = "release"]
    /\ LayoutIdle

\* the pool leaves its critical section
PoolRelease(t) ==
    /\ pool.pc[t] = "release"
    /\ pool' = [pool EXCEPT !.lock = IF @ = t THEN 0 ELSE @, !.pc[t] = "idle"]
    /\ LayoutIdle

PoolInit ==
    /\ tree = NarrowTree
    /\ style = [e \in Elems |-> Style("div", "Block", "Static", "None")]
    /\ stack = <<>>
    /\ ret = "none"
    /\ ev = NoEvent
    /\ visits = [e \in Elems |-> 0]
    /\ layouts = [e \in Elems |-> 0]
    /\ signalled = FALSE
    /\ pool = PoolIdle

PoolNext ==
    \E t \in PoolThreads :
        \/ AllocateLayoutChunk(t) \/ DeallocateLayoutChunk(t)
        \/ PoolAcquire(t) \/ PoolGrow(t) \/ PoolReadHead(t) \/ PoolUnlink(t)
        \/ PoolPush(t) \/ PoolRelease(t)

PoolSpec == PoolInit /\ [][PoolNext]_vars

----------------------------------------------------------------------------
(* The layout pass of a document.                                          *)

Init ==
    /\ tree = NarrowTree
    /\ style \in [Elems -> DocStyles]
    /\ style[1] = Style("div", "Block", "Static", "None")
    /\ stack = <<[Frame("Root", 1, 0) EXCEPT !.out = "any"]>>
    /\ ret = "none"
    /\ ev = NoEvent
    /\ visits = [e \in Elems |-> 0]
    /\ layouts = [e \in Elems |-> 0]
    /\ signalled = FALSE
    /\ pool = PoolIdle

Next ==
    \/ RootOpen \/ RootCallChild \/ RootChildReturned \/ RootClose
    \/ RootCloseAbsoluteElements \/ RootVisibleOverflow \/ RootOnLayout
    \/ ElemBreak \/ ElemBreakOnLayout \/ ElemNone \/ ElemAbsolute
    \/ ElemFloatRoot \/ ElemAddFloat \/ ElemDispatch \/ ElemTableRole
    \/ BlockOpen \/ BlockCallChild \/ BlockChildReturned \/ BlockClose
    \/ BlockReformatChild \/ BlockReformatReturned \/ BlockReclose
    \/ BlockOnLayout
    \/ InlineOpen \/ InlineCallChild \/ InlineChildReturned \/ InlineClose
    \/ InlineBlockRoot \/ InlineBlockAdd \/ InlineBlockClose
    \/ TableOpen \/ TableFormat
    \/ Return

Spec == Init /\ [][Next]_vars

\* the pass over the document WideTree
WideInit ==
    /\ tree = WideTree
    /\ style \in [Elems -> DocStyles]
    /\ style[1] = Style("div", "Block", "Static", "None")
    /\ stack = <<[Frame("Root", 1, 0) EXCEPT !.out = "any"]>>
    /\ ret = "none"
    /\ ev = NoEvent
    /\ visits = [e \in Elems |-> 0]
    /\ layouts = [e \in Elems |-> 0]
    /\ signalled = FALSE
    /\ pool = PoolIdle

WideSpec == WideInit /\ [][Next]_vars

\* the pass over a document of blocks in which element 2 has any tag,
\* display, position and float
ClassInit ==
    /\ tree = NarrowTree
    /\ \E s \in AllStyles :
        style = [e \in Elems |-> IF e = 2 THEN s
                                 ELSE Style("div", "Block", "Static", "None")]
    /\ stack = <<[Frame("Root", 1, 0) EXCEPT !.out = "any"]>>
    /\ ret = "none"
    /\ ev = NoEvent
    /\ visits = [e \in Elems |-> 0]
    /\ layouts = [e \in Elems |-> 0]
    /\ signalled = FALSE
    /\ pool = PoolIdle

ClassSpec == ClassInit /\ [][Next]_vars

\* the scheduling of the pass: the thread that runs it keeps running
FairSpec == Spec /\ WF_vars(Next)

----------------------------------------------------------------------------
(* Properties.                                                             *)

TypeOK ==
    /\ ret \in {"none", "true", "false", "void"}
    /\ signalled \in BOOLEAN
    /\ \A e \in Elems : visits[e] \in 0..CounterCap /\ layouts[e] \in 0..CounterCap

Frames == 1..Depth
ChildrenOf(e) == {Children[e][k] : k \in DOMAIN Children[e]}

\* the operations that give an element a place in a formatting context
GeometryOps == {"AddBlockElement", "AddInlineElement", "AddFloatElement",
                "AddAbsoluteElement", "AddBreak"}

\* C1: every call of the root FormatElement terminates, whatever the
\* collaborators return: the pass eventually has no routine left running.
RootTerminates == <>(~Running)

\* C2: a root call closes its context at most 2 times and runs at most 2
\* children passes; a FormatElementBlock call closes its context at most 2
\* times, the second time only after the first Close returned LAYOUT_SELF,
\* and it is in its re-format pass only after exactly one such Close.
RetryBudget ==
    \A k \in Frames :
        LET f == stack[k] IN
        /\ f.fn = "Root" => f.closes <= 2 /\ f.passes <= 2 /\ f.it <= 1
        /\ f.fn = "Block" =>
              /\ f.closes <= 2
              /\ f.closes = 2 => f.first = "LAYOUT_SELF"
              /\ f.pc \in {"reformat", "rewait"} =>
                    f.closes = 1 /\ f.first = "LAYOUT_SELF"

\* a block is closed for the second time while the root call is in its
\* second attempt
RetryBudgetUsed ==
    /\ Running
    /\ Top.fn = "Block" /\ Top.closes = 2
    /\ stack[1].fn = "Root" /\ stack[1].it = 1

\* C3: an element whose display is none gets no geometry operation and no
\* OnLayout, whatever its tag, position and float, and its children are not
\* visited.
NoneNeverLaidOut ==
    \A e \in Elems :
        style[e].display = "None" =>
            /\ layouts[e] = 0
            /\ ~(ev.el = e /\ ev.op \in GeometryOps \cup {"OnLayout"})
            /\ \A c \in ChildrenOf(e) : visits[c] = 0

\* a dispatcher routine has just been handed a false by a child
ChildFailed ==
    /\ Running
    /\ ret = "false"
    /\ Top.fn \in {"Root", "Block", "Inline"}
    /\ Top.pc \in {"wait", "rewait"}

\* the routine restarts its children pass from the first child, or returns
\* false itself
FailureHandled ==
    \/ stack'[Depth].pc = "children" /\ stack'[Depth].i = 0
    \/ stack'[Depth].pc = "return" /\ stack'[Depth].res = "false"

\* C4 as stated: whenever a child returns false to the root routine, to
\* FormatElementBlock (either pass) or to FormatElementInline, the caller
\* restarts its children pass or returns false.
FailureNeverDropped == [][ChildFailed => FailureHandled]_vars

\* C4 amended: the same, except in the re-format pass of FormatElementBlock,
\* where the result of the child is ignored and the pass goes on with the
\* next sibling.
FailureHandledOutsideReformat ==
    [][IF ChildFailed /\ Top.pc = "rewait"
       THEN stack'[Depth].pc = "reformat" /\ stack'[Depth].i = Top.i + 1
       ELSE ChildFailed => FailureHandled]_vars

\* an inline element has returned false because its child failed, and the
\* root routine is about to be handed that false
FailureSeen ==
    /\ At("Inline", "return") /\ Top.res = "false"
    /\ Top.i = 0 /\ Top.ops = 1
    /\ stack[1].pc = "wait"

BlockFinalize ==
    /\ \A k \in Frames :
          LET f == stack[k] IN
          f.fn = "Block" => (f.notes >= 1 => f.notes = 1 /\ f.last = "OK")
    /\ (At("Block", "return") /\ Top.closes >= 1) =>
          /\ Top.res = "true" <=> Top.last = "OK"
          /\ Top.notes = IF Top.res = "true" THEN 1 ELSE 0
          /\ Top.first = "LAYOUT_PARENT" =>
                Top.res = "false" /\ Top.closes = 1 /\ Top.passes = 1
          /\ Top.first = "LAYOUT_SELF" => Top.closes = 2 /\ Top.passes = 2
          /\ Top.first = "OK" => Top.closes = 1

\* a block returns false after LAYOUT_SELF and a second Close that is not OK
BlockDegraded ==
    /\ At("Block", "return")
    /\ Top.first = "LAYOUT_SELF" /\ Top.last # "OK" /\ Top.res = "false"

\* C8: for a float, AddFloatElement comes right after the return of the
\* element's own root formatting, which ended with its OnLayout; it is the
\* only operation of the call on the parent's context, it is made once, and
\* the call returns its result.
FloatSizingFirst ==
    /\ [](/\ \A k \in Frames :
               LET f == stack[k] IN
               /\ (f.fn = "Root" /\ f.pc = "return") =>
                     f.notes = 1 /\ f.absd = 1 /\ f.closes >= 1
               /\ (f.fn = "Elem" /\ Kind(f.el) = "float") =>
                     /\ f.pc \in {"start", "floatWait"} => f.ops = 0
                     /\ f.pc = "return" =>
                           f.ops = 1 /\ f.roots = 1 /\ f.res = f.last
          /\ ev.op = "AddFloatElement" =>
               /\ Kind(ev.el) = "float"
               /\ At("Elem", "return")
               /\ Top.el = ev.el /\ Top.ctx = ev.ctx /\ Top.res = ev.res
          /\ \A e \in Elems :
               (Kind(e) = "float" /\ ev.el = e /\ ev.ctx \notin {0, e}) =>
                   ev.op \in {"FormatElement", "AddFloatElement", "Return"})
    /\ [][ev'.op = "AddFloatElement" =>
             ev.op = "Return" /\ ev.el = ev'.el /\ ev.res = "void"]_vars

\* AddFloatElement has refused a float whose root formatting was completed
FloatPlaced ==
    /\ ev.op = "AddFloatElement" /\ ev.res = "false"
    /\ Top.res = "false"
    /\ layouts[ev.el] >= 1

\* C9 as stated: an element with a table-role display logs one warning and
\* returns true, without any context operation, OnLayout or visit of its
\* children.
TableRoleSkipped ==
    \A e \in Elems :
        style[e].display \in TableRoles =>
            /\ layouts[e] = 0
            /\ \A c \in ChildrenOf(e) : visits[c] = 0
            /\ ev.el = e => ev.op \in {"FormatElement", "LogWarning", "Return"}
            /\ \A k \in Frames :
                  LET f == stack[k] IN
                  f.el = e =>
                      /\ f.fn = "Elem"
                      /\ f.ops = 0
                      /\ f.pc = "return" => f.res = "true" /\ f.logs = 1

\* C9 amended: the same for an element with a table-role display that is
\* not a br, not absolute or fixed and not floated.
TableRoleSkippedInFlow ==
    \A e \in Elems :
        Kind(e) = "tablerole" =>
            /\ layouts[e] = 0
            /\ \A c \in ChildrenOf(e) : visits[c] = 0
            /\ ev.el = e => ev.op \in {"FormatElement", "LogWarning", "Return"}
            /\ \A k \in Frames :
                  LET f == stack[k] IN
                  f.el = e =>
                      /\ f.fn = "Elem"
                      /\ f.ops = 0
                      /\ f.pc = "return" => f.res = "true" /\ f.logs = 1

\* a table-role element that has a child has logged its warning and returns
TableRoleWarned ==
    /\ At("Elem", "return")
    /\ Kind(Top.el) = "tablerole"
    /\ ChildrenOf(Top.el) # {}
    /\ Top.logs = 1 /\ ev.op = "LogWarning"

\* no element of the document is floated or absolutely positioned
NoFloatsNoAbsolutes ==
    \A e \in Elems :
        style[e].float = "None" /\ style[e].position \notin {"Absolute", "Fixed"}

\* the dispatcher recurses into the children of e
Recurses(e) == e = 1 \/ Kind(e) \in {"Block", "Inline", "InlineBlock"}
Reached(e) == e # 1 /\ \A a \in Ancestors(e) : Recurses(a)

\* C10: without floats and absolutes, and as long as every Close and
\* FormatTable returned OK and every AddBlockElement a box, no FormatElement
\* returns false, no element is formatted or notified twice, no context is
\* closed twice, and at the end every element the dispatcher reaches was
\* formatted once, every context was closed once and every block got one
\* OnLayout.
SinglePass ==
    (NoFloatsNoAbsolutes /\ ~signalled) =>
        /\ ret # "false"
        /\ \A e \in Elems : visits[e] <= 1 /\ layouts[e] <= 1
        /\ \A k \in Frames :
              LET f == stack[k] IN
              /\ f.res # "false"
              /\ f.closes <= 1 /\ f.passes <= 1 /\ f.it = 0
              /\ (f.pc = "return" /\ f.fn \in {"Root", "Block", "Table"}) =>
                    f.closes = 1
        /\ ~Running =>
              \A e \in Elems :
                  /\ visits[e] = IF Reached(e) THEN 1 ELSE 0
                  /\ (Reached(e) /\ Kind(e) = "Block") => layouts[e] = 1

\* a pass over a document of nested blocks has ended without any overflow
SinglePassDone ==
    /\ ~Running
    /\ ~signalled
    /\ \A e \in Elems : Kind(e) = "Block" /\ visits[e] = (IF e = 1 THEN 0 ELSE 1)

FreeNodes == {pool.free[k] : k \in DOMAIN pool.free}
InCritical(t) == pool.pc[t] \in {"grow", "head", "unlink", "push", "release"}

\* C7: allocate and release of concurrent passes exclude each other, no node
\* is handed to two passes or handed out while it is free, and the free list
\* holds every node that is not handed out exactly once.
PoolExclusive ==
    /\ \A t, u \in PoolThreads :
          t # u => /\ ~(InCritical(t) /\ InCritical(u))
                   /\ pool.held[t] \cap pool.held[u] = {}
    /\ \A t \in PoolThreads : pool.held[t] \cap FreeNodes = {}
    /\ Cardinality(FreeNodes) = Len(pool.free)
    /\ FreeNodes \cup UNION {pool.held[t] : t \in PoolThreads} = 1..pool.size

\* one pass is unlinking a node while the other, which holds nodes, waits to
\* enter
PoolContended ==
    /\ pool.pc[1] = "unlink" /\ pool.pc[2] \in {"acquire", "reacquire"}
    /\ pool.held[2] # {} /\ pool.held[1] # {}

\* C11: a root call whose loop has ended (a Close returned OK or both
\* attempts are used) calls CloseAbsoluteElements once, then fetches the
\* visible overflow once if the caller asked for it and not otherwise, then
\* delivers OnLayout once, after which it only returns.
RootCompletion ==
    \A k \in Frames :
        LET f == stack[k] IN
        f.fn = "Root" =>
            /\ f.absd <= 1 /\ f.queries <= 1 /\ f.notes <= 1
            /\ f.absd = 1 => f.closes >= 1 /\ (f.last = "OK" \/ f.closes = 2)
            /\ f.queries = 1 => f.absd = 1 /\ f.out = "given"
            /\ f.pc = "overflow" => f.absd = 1 /\ f.queries = 0 /\ f.notes = 0
            /\ f.pc = "onLayout" =>
                  /\ f.absd = 1 /\ f.notes = 0
                  /\ f.queries = IF f.out = "given" THEN 1 ELSE 0
            /\ f.notes = 1 => f.pc = "return"
            /\ f.pc = "return" =>
                  /\ k = Depth
                  /\ f.absd = 1 /\ f.notes = 1
                  /\ f.queries = IF f.out = "given" THEN 1 ELSE 0

\* the pass returns after both attempts ended in a Close that was not OK,
\* with the visible overflow fetched for the caller
RootCompleted ==
    /\ At("Root", "return") /\ Depth = 1
    /\ Top.closes = 2 /\ Top.last # "OK"
    /\ Top.out = "given" /\ Top.queries = 1 /\ ev.op = "OnLayout"

\* C12: FormatElementTable returns true only if the last FormatTable
\* returned OK.
TableCommitted ==
    (At("Table", "return") /\ Top.res = "true") => Top.last = "OK"

\* C13: FormatElementTable calls FormatTable at most 2 times, the second
\* time iff the first call returned LAYOUT_SELF; LAYOUT_PARENT ends it with
\* false and OK with true, without a further call; when the table's box is not
\* opened it returns false without calling FormatTable.
TableRetry ==
    \A k \in Frames :
        LET f == stack[k] IN
        f.fn = "Table" =>
            /\ f.closes <= 2
            /\ f.closes = 2 => f.first = "LAYOUT_SELF"
            /\ f.box = "null" =>
                  f.pc = "return" /\ f.res = "false" /\ f.closes = 0
            /\ f.pc = "format" =>
                  /\ f.box = "box"
                  /\ f.closes = 0 \/ (f.closes = 1 /\ f.first = "LAYOUT_SELF")
            /\ (f.pc = "return" /\ f.box = "box") =>
                  /\ f.closes >= 1
                  /\ f.closes = 2 <=> f.first = "LAYOUT_SELF"
                  /\ f.last = "LAYOUT_PARENT" => f.res = "false"
                  /\ f.last = "OK" => f.res = "true"

\* a table returns false: LAYOUT_SELF, then LAYOUT_PARENT on the second call
TableRetried ==
    /\ At("Table", "return")
    /\ Top.first = "LAYOUT_SELF" /\ Top.last = "LAYOUT_PARENT"
    /\ Top.closes = 2 /\ Top.res = "false"

\* C14: a root call and a FormatElementBlock call open the context of their
\* element with one AddBlockElement, before any child is formatted and
\* before any Close; their retries open no further one; and a call that
\* opened its context has closed it at least once when it returns.
ContextLifecycle ==
    /\ \A k \in Frames :
          LET f == stack[k] IN
          f.fn \in {"Root", "Block"} =>
              /\ f.ops <= 1
              /\ f.pc # "start" => f.ops = 1 /\ f.box # "none"
              /\ f.pc = "start" =>
                    f.ops = 0 /\ f.closes = 0 /\ f.passes = 0 /\ k = Depth
              /\ k < Depth => f.box = "box"
              /\ f.closes >= 1 => f.box = "box"
              /\ (f.pc = "return" /\ f.box = "box") => f.closes >= 1
    /\ (ev.op = "AddBlockElement" /\ Running /\ Top.fn \in {"Root", "Block"}) =>
          Top.el = ev.el /\ Top.closes = 0 /\ Top.passes = 0 /\ Top.i = 0

\* a block is in its re-format pass, inside the second attempt of the root
\* call, each with the one context it opened
ContextReused ==
    /\ Depth >= 2
    /\ stack[1].it = 1 /\ stack[1].ops = 1
    /\ \E k \in Frames :
          /\ stack[k].fn = "Block" /\ stack[k].pc = "rewait"
          /\ stack[k].ops = 1 /\ stack[k].closes = 1

\* C15: FormatElementInline registers one inline box, formats its children
\* in index order against the context it was given, returns false at the
\* first child that returns false, with the later children not formatted and
\* the inline box not closed, and otherwise closes the box once and returns
\* true.
InlineAborts ==
    /\ [](\A k \in Frames :
            LET f == stack[k] IN
            f.fn = "Inline" =>
                /\ f.ops <= 1 /\ f.closes <= 1
                /\ f.pc # "start" => f.ops = 1
                /\ f.pc = "wait" =>
                      /\ f.closes = 0
                      /\ k = Depth => ret \in {"true", "false"}
                      /\ k < Depth =>
                            /\ stack[k + 1].el = GetChild(f.el, f.i)
                            /\ stack[k + 1].ctx = f.ctx
                /\ (f.pc = "return" /\ f.res = "false") =>
                      f.closes = 0 /\ f.i < GetNumChildren(f.el)
                /\ (f.pc = "return" /\ f.res = "true") =>
                      f.closes = 1 /\ f.i = GetNumChildren(f.el))
    /\ [][(At("Inline", "wait") /\ ret \in {"true", "false"}) =>
             IF ret = "true"
             THEN stack'[Depth].pc = "children" /\ stack'[Depth].i = Top.i + 1
             ELSE /\ stack'[Depth].pc = "return"
                  /\ stack'[Depth].res = "false"
                  /\ stack'[Depth].i = Top.i]_vars

\* an inline element with two children returns false after its first child
\* failed
InlineAborted ==
    /\ At("Inline", "return") /\ Top.res = "false"
    /\ Top.i = 0 /\ GetNumChildren(Top.el) = 2
    /\ Top.closes = 0

\* C16: when AddBlockElement returns null in FormatElementBlock the routine
\* returns false at once: no child of the element is formatted, Close is
\* not called and the element receives no OnLayout.
BlockOpenFailure ==
    /\ \A k \in Frames :
          LET f == stack[k] IN
          (f.fn = "Block" /\ f.box = "null") =>
              /\ k = Depth
              /\ f.pc = "return" /\ f.res = "false"
              /\ f.ops = 1 /\ f.i = 0
              /\ f.closes = 0 /\ f.passes = 0 /\ f.notes = 0
    /\ (ev.op = "AddBlockElement" /\ ev.res = "null" /\ Running
            /\ Top.fn = "Block") =>
          Top.pc = "return" /\ Top.res = "false" /\ Top.el = ev.el

\* a block element that has children could not open its box and returned
\* false
BlockOpenFailed ==
    /\ At("Block", "return")
    /\ Top.box = "null" /\ Top.res = "false"
    /\ GetNumChildren(Top.el) >= 1
    /\ ev.op = "AddBlockElement"

\* C17: when the first Close of FormatElementBlock returns LAYOUT_SELF the
\* children are formatted once more, each once and in index order whatever
\* they return, and Close is called once more; when the first Close returns
\* OK or LAYOUT_PARENT no child is formatted again.
LocalReformat ==
    /\ [](\A k \in Frames :
            LET f == stack[k] IN
            f.fn = "Block" =>
                /\ f.closes <= 2
                /\ f.pc \in {"reformat", "rewait"} =>
                      /\ f.first = "LAYOUT_SELF"
                      /\ f.closes = 1
                      /\ f.i <= GetNumChildren(f.el)
                /\ f.pc = "rewait" =>
                      /\ f.i < GetNumChildren(f.el)
                      /\ k = Depth => ret \in {"true", "false"}
                      /\ k < Depth =>
                            /\ stack[k + 1].el = GetChild(f.el, f.i)
                            /\ stack[k + 1].ctx = f.el
                /\ f.pc = "reformat" => k = Depth
                /\ f.pc = "onLayout" => k = Depth
                /\ (f.pc \in {"onLayout", "return"}
                        /\ f.first \in {"OK", "LAYOUT_PARENT"}) =>
                      f.closes = 1
                /\ (f.pc \in {"onLayout", "return"}
                        /\ f.first = "LAYOUT_SELF") =>
                      f.closes = 2 /\ f.i = GetNumChildren(f.el))
    /\ [][(At("Block", "rewait") /\ ret \in {"true", "false"}) =>
             /\ stack'[Depth].pc = "reformat"
             /\ stack'[Depth].i = Top.i + 1]_vars
    /\ [][At("Block", "reformat") =>
             IF Top.i < GetNumChildren(Top.el)
             THEN /\ Len(stack') = Depth + 1
                  /\ stack'[Depth].pc = "rewait" /\ stack'[Depth].i = Top.i
                  /\ stack'[Depth + 1].el = GetChild(Top.el, Top.i)
             ELSE /\ Len(stack') = Depth
                  /\ stack'[Depth].closes = 2
                  /\ stack'[Depth].pc \in {"onLayout", "return"}]_vars
    /\ [][(At("Block", "children") /\ ev'.op = "Close"
              /\ ev'.res # "LAYOUT_SELF") =>
             stack'[Depth].pc \in {"onLayout", "return"}]_vars

\* in the re-format pass of a block with two children the second child
\* returned false, after the first one was formatted again
ReformatChildFailed ==
    /\ At("Block", "rewait")
    /\ ret = "false"
    /\ Top.i = 1 /\ GetNumChildren(Top.el) = 2
    /\ Top.first = "LAYOUT_SELF" /\ Top.closes = 1

\* the branches a style matches, each taken alone
Matches(s) ==
    [special  |-> s.tag = "br",
     none     |-> s.display = "None",
     absolute |-> s.position \in {"Absolute", "Fixed"},
     float    |-> s.float # "None"]

\* the branch the classification order gives an element of style s: the
\* first of special, none, absolute, float that matches, else its display
Expected(s) ==
    LET m == Matches(s) IN
    CASE m.special -> "special"
      [] ~m.special /\ m.none -> "none"
      [] ~m.special /\ ~m.none /\ m.absolute -> "absolute"
      [] ~m.special /\ ~m.none /\ ~m.absolute /\ m.float -> "float"
      [] OTHER -> IF s.display \in TableRoles THEN "tablerole" ELSE s.display

\* the branch a finished FormatElement call went through, by what it did:
\* context operations, OnLayout, nested root calls, warnings
BranchTaken(f) ==
    LET did == <<f.ops, f.notes, f.roots, f.logs>> IN
    CASE did = <<1, 1, 0, 0>> -> "special"
      [] did = <<0, 0, 0, 0>> -> "none"
      [] did = <<1, 0, 0, 0>> -> "absolute"
      [] did = <<1, 0, 1, 0>> -> "float"
      [] did = <<0, 0, 0, 1>> -> "tablerole"
      [] OTHER -> "several"

\* C18: the classification is first match wins in the order br tag, display
\* none, position absolute or fixed, float, display type, and one branch
\* handles the element for every tag, display, position and float; a br
\* element is handled as a break whatever its style, and an absolute or
\* fixed element that is floated is only registered with
\* AddAbsoluteElement.
FirstMatchWins ==
    /\ \A k \in Frames :
          LET f == stack[k]
              x == Expected(style[f.el])
          IN  /\ (f.fn = "Elem" /\ f.pc = "return") =>
                    /\ BranchTaken(f) = x
                    /\ x \in {"special", "none", "absolute", "tablerole"} =>
                          f.res = "true"
              /\ (f.fn = "Elem" /\ f.pc = "breakLayout") => x = "special"
              /\ (f.fn = "Elem" /\ f.pc = "floatWait") => x = "float"
              /\ f.fn \in {"Block", "Inline", "InlineBlock", "Table"} =>
                    x = f.fn
              /\ (f.fn = "Root" /\ k > 1) => x \in {"float", "InlineBlock"}
    /\ ev.op = "AddBreak" => Expected(style[ev.el]) = "special"
    /\ ev.op = "AddAbsoluteElement" => Expected(style[ev.el]) = "absolute"
    /\ ev.op = "AddFloatElement" => Expected(style[ev.el]) = "float"
    /\ ev.op = "LogWarning" => Expected(style[ev.el]) = "tablerole"
    /\ ev.op = "FormatRoot" =>
          Expected(style[ev.el]) \in {"float", "InlineBlock"}
    /\ \A e \in Elems :
          style[e].tag = "br" =>
              \A c \in Elems : Parent(c) = e => visits[c] = 0

\* an element that is floated and absolutely positioned, with a display
\* that is not none, was registered with AddAbsoluteElement and returned
AbsoluteFloatRegistered ==
    /\ At("Elem", "return")
    /\ ev.op = "AddAbsoluteElement" /\ ev.el = Top.el
    /\ style[Top.el].float # "None"
    /\ style[Top.el].position \in {"Absolute", "Fixed"}
    /\ Top.roots = 0 /\ Top.ops = 1 /\ Top.res = "true"

\* C19: FormatElementInlineBlock first completes a root formatting of the
\* element, then performs one AddInlineElement on the parent context,
\* immediately followed by the Close of that inline box; no child of the
\* element is passed to FormatElement with the parent's context, and the
\* routine returns true whatever the nested formatting did.
InlineBlockAtomic ==
    /\ [](/\ \A k \in Frames :
               LET f == stack[k] IN
               /\ f.fn = "InlineBlock" =>
                     /\ f.pc = "start" =>
                           k = Depth /\ f.ops = 0 /\ f.roots = 0
                     /\ f.pc = "wait" =>
                           /\ f.ops = 0 /\ f.closes = 0
                           /\ k = Depth => ret = "void"
                           /\ k < Depth =>
                                 /\ stack[k + 1].fn = "Root"
                                 /\ stack[k + 1].el = f.el
                     /\ f.pc = "close" =>
                           /\ k = Depth
                           /\ f.ops = 1 /\ f.roots = 1 /\ f.closes = 0
                           /\ ev.op = "AddInlineElement"
                           /\ ev.el = f.el /\ ev.ctx = f.ctx
                     /\ f.pc = "return" =>
                           /\ k = Depth
                           /\ f.ops = 1 /\ f.roots = 1 /\ f.closes = 1
                           /\ f.res = "true"
               /\ (k > 1 /\ f.fn # "Root" /\ Parent(f.el) # 0) =>
                     (Kind(Parent(f.el)) = "InlineBlock" =>
                         /\ f.ctx = Parent(f.el)
                         /\ \E j \in 1..(k - 1) :
                               /\ stack[j].fn = "InlineBlock"
                               /\ stack[j].el = Parent(f.el)
                               /\ stack[j].pc = "wait"
                               /\ stack[j].ctx # f.ctx)
           /\ ev.op = "FormatElement" =>
                 (Kind(Parent(ev.el)) = "InlineBlock" =>
                     ev.ctx = Parent(ev.el)))
    /\ [][(At("InlineBlock", "wait") /\ ret = "void") =>
             /\ ev.op = "Return" /\ ev.el = Top.el
             /\ ev'.op = "AddInlineElement" /\ ev'.el = Top.el
             /\ ev'.ctx = Top.ctx
             /\ stack'[Depth].pc = "close"]_vars
    /\ [][At("InlineBlock", "close") =>
             /\ ev'.op = "CloseInline" /\ ev'.el = Top.el
             /\ stack'[Depth].pc = "return"
             /\ stack'[Depth].res = "true"]_vars

\* an inline-block with a child returned true: its child was formatted in
\* the nested root call and a Close did not return OK
InlineBlockPlaced ==
    /\ At("InlineBlock", "return")
    /\ Top.res = "true" /\ Top.closes = 1
    /\ GetNumChildren(Top.el) >= 1
    /\ visits[GetChild(Top.el, 0)] >= 1
    /\ signalled

\* the branches of FormatElement that have a path returning false
MayFail == {"float", "Block", "Inline", "Table"}

\* C20: FormatElement(context, element) returns false only for an element
\* dispatched as a float, a block, an inline or a table; br, display none,
\* absolute or fixed, inline-block and table-role elements return true in
\* every case, so the parent never restarts its children because of them.
FalseOnlyFromLayout ==
    /\ \A k \in Frames :
          LET f == stack[k] IN
          (f.fn # "Root" /\ f.pc = "return") =>
              /\ f.res \in {"true", "false"}
              /\ f.res = "false" => Kind(f.el) \in MayFail
              /\ Kind(f.el) \notin MayFail => f.res = "true"
    /\ (ev.op = "Return" /\ ev.res = "false") => Kind(ev.el) \in MayFail
    /\ (Running /\ Top.fn \in {"Root", "Block", "Inline"}
            /\ Top.pc = "wait" /\ ret = "false") =>
          /\ ev.op = "Return" /\ ev.el = GetChild(Top.el, Top.i)
          /\ Kind(ev.el) \in MayFail

\* a float returned false to the routine that formats its siblings
FloatReturnedFalse ==
    /\ Running /\ Top.fn \in {"Root", "Block"} /\ Top.pc = "wait"
    /\ ret = "false"
    /\ ev.op = "Return" /\ Kind(ev.el) = "float"

====
